---- MODULE Spec2Model ----
(***************************************************************************)
(* nodeshot.networking.links: the Link model (validation, save-time        *)
(* derivation, lookup by address pair, find-or-create) and the topology    *)
(* reconciliation that drives it.                                          *)
(*                                                                         *)
(* Every optional value is a string; the absent value (Python None, SQL    *)
(* NULL) is the string "None".  Numbers that the code only stores and      *)
(* compares for equality (dbm, noise, metric_value) are strings as well.   *)
(* A link's primary key is its position in the sequence `links`.           *)
(***************************************************************************)
EXTENDS Naturals, Sequences, FiniteSets, TLC

\* ------------------------------------------------------------------ bounds
\* Rows the links table may hold.
MaxLinks == 2
\* Edges of one topology document.
MaxEdges == 2

\* ---------------------------------------------------------------- fixtures
\* The interface, ip, node and layer tables the link code reads and never
\* writes (the fixtures of tests.py: interface 1 is ethernet, 2 and 3 are
\* wireless, on different nodes), and a bridge, which is neither.
None == "None"

Interfaces == {"eth1", "wlan2", "wlan3", "wlan4", "br5"}

IfType == [i \in Interfaces |->
             CASE i = "eth1" -> "ethernet"
               [] i = "br5"  -> "bridge"
               [] OTHER      -> "wireless"]

IfNode == [i \in Interfaces |->
             CASE i = "eth1"  -> "node1"
               [] i = "wlan2" -> "node1"
               [] i = "wlan3" -> "node2"
               [] OTHER       -> "node3"]

IfMac == [i \in Interfaces |->
            CASE i = "eth1"  -> "00:27:22:00:50:70"
              [] i = "wlan2" -> "00:27:22:00:50:71"
              [] i = "wlan3" -> "00:27:22:00:50:72"
              [] i = "wlan4" -> "00:27:22:00:50:73"
              [] OTHER       -> "00:27:22:00:50:74"]

Nodes == {"node1", "node2", "node3"}

\* Display name and slug of each node.
NodeName == [n \in Nodes |->
               CASE n = "node1" -> "Node One"
                 [] n = "node2" -> "Node Two"
                 [] OTHER       -> "Node Three"]

NodeSlug == [n \in Nodes |->
               CASE n = "node1" -> "node-one"
                 [] n = "node2" -> "node-two"
                 [] OTHER       -> "node-three"]

NodeLayer == [n \in Nodes |-> IF n = "node3" THEN "layer2" ELSE "layer1"]

Layers == {"layer1", "layer2"}

LayerSlug == [y \in Layers |-> IF y = "layer1" THEN "layer-one" ELSE "layer-two"]

NodePoint == [n \in Nodes |->
                CASE n = "node1" -> <<41, 12>>
                  [] n = "node2" -> <<42, 12>>
                  [] OTHER       -> <<43, 13>>]

\* Rows of the Ip table: address -> interface.
IpTable == [a \in {"172.16.40.1", "172.16.40.2", "172.16.40.3", "172.16.40.4",
                   "fe80::2", "fe80::3"} |->
              CASE a = "172.16.40.1" -> "eth1"
                [] a = "172.16.40.2" -> "wlan2"
                [] a = "172.16.40.3" -> "wlan3"
                [] a = "172.16.40.4" -> "wlan4"
                [] a = "fe80::2"     -> "wlan2"
                [] OTHER             -> "wlan3"]

\* Address strings handed to the lookups: the rows above, the interfaces'
\* MAC addresses, well-formed addresses of no row, and a malformed one.
Addresses == DOMAIN IpTable \cup {IfMac[i] : i \in Interfaces}
             \cup {"10.0.0.9", "CC:27:22:00:BB:AA", "test"}

valid_ipv4(a) == a \in {"172.16.40.1", "172.16.40.2", "172.16.40.3",
                        "172.16.40.4", "10.0.0.9"}

valid_ipv6(a) == a \in {"fe80::2", "fe80::3"}

valid_mac(a) == a \in {IfMac[i] : i \in Interfaces} \cup {"CC:27:22:00:BB:AA"}

\* ------------------------------------------------------------------- links
LINK_TYPES == {"radio", "ethernet", "virtual"}

LINK_STATUS == {"planned", "active", "disconnected"}

Topologies == {"t1", "t2"}

\* The extra data of a link that has never been saved.
EmptyData == [node_a_name |-> None, node_b_name |-> None,
              node_a_slug |-> None, node_b_slug |-> None,
              interface_a_mac |-> None, interface_b_mac |-> None,
              layer_slug |-> None]

\* Link(**kwargs): an unsaved instance (id 0) with the fields' defaults.
NewLink(type, ia, ib, na, nb, status, dbm, noise, topology, metric) ==
  [id |-> 0, type |-> type, interface_a |-> ia, interface_b |-> ib,
   topology |-> topology, node_a |-> na, node_b |-> nb, layer |-> None,
   line |-> <<>>, status |-> status, metric_value |-> metric,
   dbm |-> dbm, noise |-> noise, data |-> EmptyData]

\* Link.clean, reached through full_clean: "ok" or the rule that raised
\* ValidationError, in the order the code tests them.
clean(l) ==
  IF l.status # "planned" /\ (l.interface_a = None \/ l.interface_b = None)
    THEN "ValidationError:interfaces_mandatory"
  ELSE IF l.status # "planned" /\ l.interface_a = l.interface_b
    THEN "ValidationError:same_interface"
  ELSE IF l.status = "planned" /\ (l.node_a = None \/ l.node_b = None)
    THEN "ValidationError:nodes_mandatory"
  ELSE IF l.type # "radio" /\ (l.dbm # None \/ l.noise # None)
    THEN "ValidationError:radio_info"
  ELSE IF l.interface_a # None /\ l.interface_b # None
          /\ IfType[l.interface_a] # IfType[l.interface_b]
    THEN "ValidationError:interface_type"
  ELSE "ok"

\* Link.save, lines 124-130: the type inferred from interface_a when unset.
InferType(l) ==
  IF l.type # None THEN l.type
  ELSE IF IfType[l.interface_a] = "wireless" THEN "radio"
  ELSE IF IfType[l.interface_a] = "ethernet" THEN "ethernet"
  ELSE "virtual"

\* Lines 137-141: node_a and node_b filled from the interfaces when unset.
FillNodes(l) ==
  [l EXCEPT
     !.node_a = IF l.node_a = None /\ l.interface_a # None
                  THEN IfNode[l.interface_a] ELSE l.node_a,
     !.node_b = IF l.node_b = None /\ l.interface_b # None
                  THEN IfNode[l.interface_b] ELSE l.node_b]

\* A variant of WithNames that caches each name when that name is missing.
WithNamesEach(d, l) ==
  [d EXCEPT
     !.node_a_name = IF d.node_a_name = None THEN NodeName[l.node_a]
                                             ELSE d.node_a_name,
     !.node_b_name = IF d.node_b_name = None THEN NodeName[l.node_b]
                                             ELSE d.node_b_name]

\* Lines 152-154: both names cached when node_a_name is missing.
WithNames(d, l) ==
  IF d.node_a_name = None
    THEN [d EXCEPT !.node_a_name = NodeName[l.node_a],
                   !.node_b_name = NodeName[l.node_b]]
    ELSE d

\* Lines 156-158: both slugs cached when either is missing.
WithSlugs(d, l) ==
  IF d.node_a_slug = None \/ d.node_b_slug = None
    THEN [d EXCEPT !.node_a_slug = NodeSlug[l.node_a],
                   !.node_b_slug = NodeSlug[l.node_b]]
    ELSE d

\* Lines 160-164: each interface's MAC cached when missing.
WithMacs(d, l) ==
  [d EXCEPT
     !.interface_a_mac = IF l.interface_a # None /\ d.interface_a_mac = None
                           THEN IfMac[l.interface_a] ELSE d.interface_a_mac,
     !.interface_b_mac = IF l.interface_b # None /\ d.interface_b_mac = None
                           THEN IfMac[l.interface_b] ELSE d.interface_b_mac]

\* A variant of DeriveIn that draws the line at every save.
DeriveInRedraws(l, lay) ==
  [l EXCEPT !.layer = lay,
            !.line = <<NodePoint[l.node_a], NodePoint[l.node_b]>>,
            !.data = [WithMacs(WithSlugs(WithNames(l.data, l), l), l)
                        EXCEPT !.layer_slug = LayerSlug[lay]]]

\* Lines 143-167 for the layer `lay` the link ends with: the line drawn when
\* unset, the extra data cached, layer_slug always rewritten.
DeriveIn(l, lay) ==
  [l EXCEPT !.layer = lay,
            !.line = IF l.line = <<>>
                       THEN <<NodePoint[l.node_a], NodePoint[l.node_b]>>
                       ELSE l.line,
            !.data = [WithMacs(WithSlugs(WithNames(l.data, l), l), l)
                        EXCEPT !.layer_slug = LayerSlug[lay]]]

\* Lines 143-167, where every object they dereference is there.
Derive(l) ==
  DeriveIn(l, IF l.layer = None THEN NodeLayer[l.node_a] ELSE l.layer)

\* Whether lines 143-158 dereference a node that is None (node_a.layer,
\* node_a.point, node_b.point, node_a.name, node_b.name, the slugs): Python
\* raises AttributeError there.
DerefsNone(l) ==
  \/ l.layer = None /\ l.node_a = None
  \/ (l.node_a = None \/ l.node_b = None)
       /\ (\/ l.line = <<>>
           \/ l.data.node_a_name = None
           \/ l.data.node_a_slug = None
           \/ l.data.node_b_slug = None)

\* Variants of the write at line 169.
\* Every save inserts a row, also for an instance that has a key.
PersistAlwaysInserts(store, l) == Append(store, [l EXCEPT !.id = Len(store) + 1])

\* An update rewrites the row under a new key.
PersistRekeys(store, l) ==
  IF l.id = 0
    THEN Append(store, [l EXCEPT !.id = Len(store) + 1])
    ELSE [store EXCEPT ![l.id] = [l EXCEPT !.id = Len(store) + 1]]

\* The row written by super().save() at line 169: an insert gives the next
\* primary key, an update replaces the row of the instance's key.
Persist(store, l) ==
  IF l.id = 0
    THEN Append(store, [l EXCEPT !.id = Len(store) + 1])
    ELSE [store EXCEPT ![l.id] = l]

\* What save returns once the row is written: the table and the instance,
\* which now carries its key.
Saved(store, l) ==
  [store |-> store, link |-> IF l.id = 0 THEN [l EXCEPT !.id = Len(store)] ELSE l,
   err |-> "ok"]

\* The instance as an AttributeError leaves it: save assigns to the instance
\* in memory as it goes, so what lines 143-158 set before the line that
\* raises stays set.
\* Lines 156-158: node_a_slug is assigned before node_b.slug is read.
RaisedAtSlugs(l) ==
  IF (l.data.node_a_slug = None \/ l.data.node_b_slug = None)
     /\ l.node_a # None /\ l.node_b = None
    THEN [l EXCEPT !.data.node_a_slug = NodeSlug[l.node_a]]
    ELSE l

\* Lines 152-154: node_a_name is assigned before node_b.name is read.
RaisedAtNames(l) ==
  IF l.data.node_a_name # None THEN RaisedAtSlugs(l)
  ELSE IF l.node_a = None THEN l
  ELSE IF l.node_b = None
    THEN [l EXCEPT !.data.node_a_name = NodeName[l.node_a]]
  ELSE RaisedAtSlugs([l EXCEPT !.data = WithNames(l.data, l)])

\* Lines 148-149: both points are read before the line is assigned.
RaisedAtLine(l) ==
  IF l.line # <<>> THEN RaisedAtNames(l)
  ELSE IF l.node_a = None \/ l.node_b = None THEN l
  ELSE RaisedAtNames([l EXCEPT !.line = <<NodePoint[l.node_a], NodePoint[l.node_b]>>])

\* Lines 144-145: node_a.layer is read when the layer is unset.
Raised(l) ==
  IF l.layer # None THEN RaisedAtLine(l)
  ELSE IF l.node_a = None THEN l
  ELSE RaisedAtLine([l EXCEPT !.layer = NodeLayer[l.node_a]])

\* Lines 143-169 on the instance `l2` with its type and nodes filled.
SaveFilled(store, l2) ==
  IF DerefsNone(l2)
    THEN [store |-> store, link |-> Raised(l2), err |-> "AttributeError"]
    ELSE Saved(Persist(store, Derive(l2)), Derive(l2))

\* Link.save: [store, link, err].  A None dereference (interface_a.type at
\* line 125, a node at lines 145-158) raises AttributeError before anything
\* is written; the instance keeps what was assigned to it before the raise.
\* Lines 132-135 reload the interfaces from their keys, which
\* are the references themselves here.  save does not call clean.
save(store, l) ==
  IF l.type = None /\ l.interface_a = None
    THEN [store |-> store, link |-> l, err |-> "AttributeError"]
    ELSE SaveFilled(store, FillNodes([l EXCEPT !.type = InferType(l)]))

\* link.full_clean(); link.save() as tests.py and find_or_create do it.
clean_save(store, l) ==
  IF clean(l) = "ok" THEN save(store, l)
                     ELSE [store |-> store, link |-> l, err |-> clean(l)]

\* ----------------------------------------------------------------- lookups
\* The interface of a MAC address (Interface.objects.get(mac=...)).
ByMac(a) == CHOOSE i \in Interfaces : IfMac[i] = a

\* A variant of lines 184-197 that goes on with no interface when a row is
\* missing instead of raising LinkDataNotFound.
ResolveSkipsMissing(a, b) ==
  IF (valid_ipv4(a) /\ valid_ipv4(b)) \/ (valid_ipv6(a) /\ valid_ipv6(b))
    THEN [err |-> "ok",
          a |-> IF a \in DOMAIN IpTable THEN IpTable[a] ELSE None,
          b |-> IF b \in DOMAIN IpTable THEN IpTable[b] ELSE None]
  ELSE IF valid_mac(a) /\ valid_mac(b)
    THEN [err |-> "ok",
          a |-> IF \E i \in Interfaces : IfMac[i] = a THEN ByMac(a) ELSE None,
          b |-> IF \E i \in Interfaces : IfMac[i] = b THEN ByMac(b) ELSE None]
  ELSE [err |-> "ValueError", a |-> None, b |-> None]

\* A variant of line 184 that takes any two IP addresses, whatever their
\* families.
ResolveAnyIp(a, b) ==
  IF (valid_ipv4(a) \/ valid_ipv6(a)) /\ (valid_ipv4(b) \/ valid_ipv6(b))
    THEN IF a \in DOMAIN IpTable /\ b \in DOMAIN IpTable
           THEN [err |-> "ok", a |-> IpTable[a], b |-> IpTable[b]]
           ELSE [err |-> "LinkDataNotFound", a |-> None, b |-> None]
  ELSE IF valid_mac(a) /\ valid_mac(b)
    THEN IF (\E i \in Interfaces : IfMac[i] = a) /\ (\E i \in Interfaces : IfMac[i] = b)
           THEN [err |-> "ok", a |-> ByMac(a), b |-> ByMac(b)]
           ELSE [err |-> "LinkDataNotFound", a |-> None, b |-> None]
  ELSE [err |-> "ValueError", a |-> None, b |-> None]

\* Lines 184-197: the two addresses resolved to interfaces.
Resolve(a, b) ==
  IF (valid_ipv4(a) /\ valid_ipv4(b)) \/ (valid_ipv6(a) /\ valid_ipv6(b))
    THEN IF a \in DOMAIN IpTable /\ b \in DOMAIN IpTable
           THEN [err |-> "ok", a |-> IpTable[a], b |-> IpTable[b]]
           ELSE [err |-> "LinkDataNotFound", a |-> None, b |-> None]
  ELSE IF valid_mac(a) /\ valid_mac(b)
    THEN IF (\E i \in Interfaces : IfMac[i] = a) /\ (\E i \in Interfaces : IfMac[i] = b)
           THEN [err |-> "ok", a |-> ByMac(a), b |-> ByMac(b)]
           ELSE [err |-> "LinkDataNotFound", a |-> None, b |-> None]
  ELSE [err |-> "ValueError", a |-> None, b |-> None]

\* Lines 188-189 and 194-195: what LinkDataNotFound carries, the ORM's
\* DoesNotExist error, whose text names the model queried.
DoesNotExist(a, b) ==
  IF (valid_ipv4(a) /\ valid_ipv4(b)) \/ (valid_ipv6(a) /\ valid_ipv6(b))
    THEN "Ip matching query does not exist."
    ELSE "Interface matching query does not exist."

\* A variant of lines 200-201 with the Q(a,b) half of the query alone.
MatchingForward(store, ia, ib) ==
  {i \in 1..Len(store) : store[i].interface_a = ia /\ store[i].interface_b = ib}

\* Lines 200-201: the rows matching Q(a,b) | Q(b,a).
Matching(store, ia, ib) ==
  {i \in 1..Len(store) :
     \/ store[i].interface_a = ia /\ store[i].interface_b = ib
     \/ store[i].interface_a = ib /\ store[i].interface_b = ia}

\* .first(): the matching row of lowest primary key, 0 when there is none.
First(S) == IF S = {} THEN 0 ELSE CHOOSE i \in S : \A j \in S : i <= j

\* Lines 202-206: LinkNotFound carries the two interfaces.
FoundOrNot(id, ia, ib) ==
  [err |-> IF id = 0 THEN "LinkNotFound" ELSE "ok", id |-> id,
   interface_a |-> ia, interface_b |-> ib]

\* A variant of lines 198-206 whose query matches no row.
LookupFindsNothing(store, r) ==
  IF r.err # "ok"
    THEN [err |-> r.err, id |-> 0, interface_a |-> None, interface_b |-> None]
    ELSE [err |-> "LinkNotFound", id |-> 0, interface_a |-> r.a, interface_b |-> r.b]

\* Lines 198-206 for resolved addresses.
Lookup(store, r) ==
  IF r.err # "ok"
    THEN [err |-> r.err, id |-> 0, interface_a |-> None, interface_b |-> None]
    ELSE FoundOrNot(First(Matching(store, r.a, r.b)), r.a, r.b)

\* Link.find_from_tuple: [err, id, interface_a, interface_b].
find_from_tuple(store, a, b) == Lookup(store, Resolve(a, b))

\* Lines 221-223: what find_or_create returns after full_clean and save.
Created(r) ==
  [store |-> r.store, err |-> r.err, id |-> IF r.err = "ok" THEN r.link.id ELSE 0]

\* A variant of lines 213-223 that re-raises LinkNotFound instead of creating.
FindOnly(store, f) == [store |-> store, err |-> f.err, id |-> f.id]

\* Lines 213-223 for the outcome `f` of find_from_tuple.
CreateIfMissing(store, f) ==
  IF f.err # "LinkNotFound"
    THEN [store |-> store, err |-> f.err, id |-> f.id]
    ELSE Created(clean_save(store,
           NewLink("radio", f.interface_a, f.interface_b, None, None,
                   "active", None, None, None, None)))

\* Link.find_or_create: [store, err, id].
find_or_create(store, a, b) == CreateIfMissing(store, find_from_tuple(store, a, b))

\* ---------------------------------------------------------- reconciliation
\* Topology.update is not among the source files (tests.py calls it); it is
\* modelled from the design document's section 4.6, on top of the
\* find_or_create and save above.

\* A topology document: a sequence of edges <<source, target, weight>>.
\* The address pairs of the edges: two links of three wireless interfaces,
\* one of them also reversed, an ethernet-wireless pair, an address twice,
\* and an address of no interface.
EdgePairs == {<<"172.16.40.2", "172.16.40.3">>, <<"172.16.40.3", "172.16.40.2">>,
              <<"172.16.40.3", "172.16.40.4">>, <<"172.16.40.1", "172.16.40.3">>,
              <<"172.16.40.2", "172.16.40.2">>, <<"172.16.40.2", "10.0.0.9">>}

Weights == {"1.01", "2.5"}

Edges == {<<p[1], p[2], w>> : p \in EdgePairs, w \in Weights}

Documents == UNION {[1..n -> Edges] : n \in 0..MaxEdges}

\* Step 2 for one edge: the link found or created is given to the source,
\* set active with the edge's weight, and saved.
Touch(store, id, source, weight) ==
  save(store, [store[id] EXCEPT !.topology = source, !.status = "active",
                                !.metric_value = weight]).store

RECURSIVE ApplyEdges(_, _, _, _, _)
RECURSIVE ApplyEdge(_, _, _, _, _, _)

\* Step 2 for the edges from position k on: [store, touched].
ApplyEdges(store, source, doc, k, touched) ==
  IF k > Len(doc)
    THEN [store |-> store, touched |-> touched]
    ELSE ApplyEdge(store, source, doc, k, touched,
                   find_or_create(store, doc[k][1], doc[k][2]))

\* Edge k, whose find_or_create gave `r`: an edge that raised is skipped.
ApplyEdge(store, source, doc, k, touched, r) ==
  IF r.err = "ok"
    THEN ApplyEdges(Touch(r.store, r.id, source, doc[k][3]), source, doc, k + 1,
                    touched \cup {r.id})
    ELSE ApplyEdges(store, source, doc, k + 1, touched)

\* A variant of step 3 that leaves every link as it is.
DisconnectsNothing(store, source, touched, i) == store

\* Step 3 for the rows from key i on: the source's active links that step 2
\* did not touch are set disconnected and saved.
RECURSIVE Disconnect(_, _, _, _)
Disconnect(store, source, touched, i) ==
  IF i > Len(store) THEN store
  ELSE IF store[i].topology = source /\ i \notin touched /\ store[i].status = "active"
    THEN Disconnect(save(store, [store[i] EXCEPT !.status = "disconnected"]).store,
                    source, touched, i + 1)
    ELSE Disconnect(store, source, touched, i + 1)

\* Step 3 after step 2 left `r`.
Reconcile(source, r) == Disconnect(r.store, source, r.touched, 1)

\* Topology.update for a decoded document: the table it leaves.
update(store, source, doc) == Reconcile(source, ApplyEdges(store, source, doc, 1, {}))

\* ------------------------------------------------------------------ export
\* Topology.json is not among the source files either (tests.py calls it);
\* it is modelled from the design document's section 4.5.

\* The address an interface is exported under: its IPv4 address, if it has
\* one.
IfAddress == [i \in Interfaces |->
                CASE i = "eth1"  -> "172.16.40.1"
                  [] i = "wlan2" -> "172.16.40.2"
                  [] i = "wlan3" -> "172.16.40.3"
                  [] i = "wlan4" -> "172.16.40.4"
                  [] OTHER       -> None]

AddressOf(i) == IF i = None THEN None ELSE IfAddress[i]

\* A variant of the selection below that takes the source's links of any
\* status.
LinksOfSource(store, source) == SelectSeq(store, LAMBDA l : l.topology = source)

\* The source's active links, in the order of their keys.
ActiveLinks(store, source) ==
  SelectSeq(store, LAMBDA l : l.topology = source /\ l.status = "active")

\* The exported entry of a link.
LinkEntry(l) ==
  [source |-> AddressOf(l.interface_a), target |-> AddressOf(l.interface_b),
   weight |-> l.metric_value]

\* The addresses of a sequence of links, each once, in the order they appear.
RECURSIVE NodeEntries(_, _, _)
NodeEntries(ls, k, seen) ==
  IF k > Len(ls) THEN seen
  ELSE NodeEntries(ls, k + 1,
         seen \o SelectSeq(IF LinkEntry(ls[k]).source = LinkEntry(ls[k]).target
                             THEN <<LinkEntry(ls[k]).source>>
                             ELSE <<LinkEntry(ls[k]).source, LinkEntry(ls[k]).target>>,
                           LAMBDA a : \A j \in 1..Len(seen) : seen[j] # a))

\* The exported document of the active links `ls`.
Exported(ls) ==
  [type |-> "NetworkGraph", nodes |-> NodeEntries(ls, 1, <<>>),
   links |-> [k \in 1..Len(ls) |-> LinkEntry(ls[k])]]

\* Topology.json for a source.
export(store, source) == Exported(ActiveLinks(store, source))

\* ------------------------------------------------------------ state machine
VARIABLES
  links,  \* the links table, in primary key order
  last,   \* the last call: its name, what it raised, the key of the link it
          \* returned (0: none) and whether it inserted a row
  calls,  \* the find_or_create calls in progress, one per caller
  run     \* the update run in progress or last ended, step by step

vars == <<links, last, calls, run>>

\* Two request handlers or tasks that call find_or_create at the same time.
Callers == {"c1", "c2"}

\* The sources whose update the reconciliation task runs.
UpdatedSources == {"t1"}

Idle == [pc |-> "idle", interface_a |-> None, interface_b |-> None]

\* The instances callers build: every combination of the fields below.
Drafts ==
  {NewLink(type, ia, ib, n[1], n[2], status, r[1], r[2], None, None) :
     type \in {None, "radio", "ethernet"},
     ia \in {None, "eth1", "wlan2"},
     ib \in {None, "wlan2", "wlan3"},
     n \in {<<None, None>>, <<"node1", "node2">>},
     status \in {"planned", "active"},
     r \in {<<None, None>>, <<"-70", None>>, <<None, "-90">>}}

\* The instances the save actions are given: links between interfaces
\* (wireless-wireless, an interface with itself, ethernet-wireless), links
\* between nodes with and without interfaces, links with radio information
\* for each type, a planned link without nodes, and a link of a topology.
SaveInputs ==
  {NewLink("radio", e[1], e[2], None, None, "active", None, None, None, None) :
     e \in {<<"wlan2", "wlan3">>, <<"wlan2", "wlan2">>, <<"eth1", "wlan3">>}}
  \cup
  {NewLink("radio", e[1], e[2], "node1", "node2", st, None, None, None, None) :
     e \in {<<None, None>>, <<"wlan2", "wlan2">>}, st \in {"planned", "active"}}
  \cup
  {NewLink(t, "wlan2", "wlan3", None, None, "active", r[1], r[2], None, None) :
     t \in {None, "radio", "ethernet"}, r \in {<<"-70", None>>, <<None, "-90">>}}
  \cup
  {NewLink(None, "eth1", "wlan3", None, None, "active", "-70", None, None, None),
   NewLink(None, None, None, None, None, "active", None, None, None, None),
   NewLink("radio", "wlan2", "wlan3", None, None, "planned", None, None, None, None),
   NewLink("radio", "wlan3", "wlan2", None, None, "active", None, None, "t1", "1.01")}

\* No update run: nothing fetched, no edge applied, no table remembered.
\* `start` is the table a run started from and `alone` whether no other
\* writer has changed the table since.
NoRun == [pc |-> "idle", source |-> None, fetched |-> [err |-> "ok", doc |-> <<>>],
          doc |-> <<>>, k |-> 1, touched |-> {}, i |-> 1, start |-> <<>>,
          alone |-> TRUE]

Init ==
  /\ links = <<>>
  /\ last = [op |-> "init", err |-> "ok", id |-> 0, new |-> FALSE]
  /\ calls = [c \in Callers |-> Idle]
  /\ run = NoRun

\* What a call that returns a link leaves in `last`.
Outcome(op, err, id, before, after) ==
  [op |-> op, err |-> err, id |-> IF err = "ok" THEN id ELSE 0,
   new |-> Len(after) > Len(before)]

\* A call that returned `r` = [store, err, id]: the table and `last` after it.
\* The table is kept to MaxLinks rows.
Returns(op, r) ==
  /\ Len(r.store) <= MaxLinks
  /\ links' = r.store
  /\ last' = Outcome(op, r.err, r.id, links, r.store)
  /\ UNCHANGED <<calls, run>>

\* link.save() on a new instance.
Save(d) ==
  /\ d.id = 0
  /\ Returns("save", Created(save(links, d)))

\* link.full_clean() followed by link.save() on a new instance.
CleanSave(d) ==
  /\ d.id = 0
  /\ Returns("clean_save", Created(clean_save(links, d)))

\* What a lookup returned, with the table it read.
Read(store, f) == [store |-> store, err |-> f.err, id |-> f.id]

\* find_or_create, as the two database round trips of the code: the SELECTs
\* of find_from_tuple (line 214), then, on LinkNotFound, full_clean and the
\* INSERT of save (lines 218-222).  No lock is taken and the table has no
\* unique constraint, so other callers' steps come between the two.  A
\* caller between the two holds the interfaces its lookup resolved.
Looked(c, f) ==
  /\ calls' = [calls EXCEPT ![c] =
                 IF f.err = "LinkNotFound"
                   THEN [pc |-> "creating", interface_a |-> f.interface_a,
                         interface_b |-> f.interface_b]
                   ELSE Idle]
  /\ last' = IF f.err = "LinkNotFound"
               THEN last
               ELSE Outcome("find_or_create", f.err, f.id, links, links)
  /\ UNCHANGED <<links, run>>

\* Lines 213-216: the lookup; the call returns unless it raised LinkNotFound.
Look(c, a, b) ==
  /\ calls[c].pc = "idle"
  /\ Looked(c, find_from_tuple(links, a, b))

Inserted(c, r) ==
  /\ Len(r.store) <= MaxLinks
  /\ links' = r.store
  /\ calls' = [calls EXCEPT ![c] = Idle]
  /\ last' = Outcome("find_or_create", r.err, r.id, links, r.store)
  /\ UNCHANGED run

\* Lines 217-223: the link is built, validated and saved, and the call
\* returns.
Create(c) ==
  /\ calls[c].pc = "creating"
  /\ Inserted(c, Created(clean_save(links,
                   NewLink("radio", calls[c].interface_a, calls[c].interface_b,
                           None, None, "active", None, None, None, None))))

FindFromTuple(a, b) ==
  Returns("find_from_tuple", Read(links, find_from_tuple(links, a, b)))

\* A run of update that left the table `after`.
Ran(after) ==
  /\ Len(after) <= MaxLinks
  /\ Returns("update", [store |-> after, err |-> "ok", id |-> 0])

Update(source, doc) == Ran(update(links, source, doc))

\* The addresses the lookups are called with: the IPv4 addresses of an
\* ethernet and two wireless interfaces, one of no row, a MAC address and a
\* malformed address.
LookedUp == {"172.16.40.1", "172.16.40.2", "172.16.40.3", "10.0.0.9",
             "00:27:22:00:50:71", "test"}

\* The Link model used directly: saves and lookups, and one caller's
\* find_or_create, whose two round trips the other calls come between.
Next ==
  \/ \E d \in SaveInputs : Save(d)
  \/ \E d \in SaveInputs : CleanSave(d)
  \/ \E a, b \in LookedUp : FindFromTuple(a, b)
  \/ \E a, b \in LookedUp : Look("c1", a, b)
  \/ Create("c1")

Spec == Init /\ [][Next]_vars

\* Reconciliation runs over a table that validated saves also write.
NextUpdate ==
  \/ \E s \in UpdatedSources, doc \in Documents : Update(s, doc)
  \/ \E d \in SaveInputs : CleanSave(d)

SpecUpdate == Init /\ [][NextUpdate]_vars

\* The addresses the concurrent callers look up.
CallAddresses == {"172.16.40.1", "172.16.40.2", "172.16.40.3", "172.16.40.4"}

NextConcurrent ==
  \/ \E c \in Callers, a, b \in CallAddresses : Look(c, a, b)
  \/ \E c \in Callers : Create(c)

SpecConcurrent == Init /\ [][NextConcurrent]_vars

\* --------------------------------------------------- update, step by step
\* One update run as the steps of section 4.6: the document is fetched and
\* decoded (step 1), its edges are applied one at a time (step 2), then the
\* source's links are visited one at a time (step 3).  A run can be
\* interrupted between any two steps, and other writers' saves come between
\* its steps.

\* What the fetch of step 1 can end with instead of a document.
Failures == {"FetchError", "DecodeError"}

\* The states of a run that is under way.
Running == {"fetch", "edges", "disconnect"}

\* The documents of the runs followed step by step: those made of a link
\* between two wireless interfaces with either weight, a second link that
\* shares an interface with it, and an ethernet-wireless pair.
StepEdges == {<<"172.16.40.2", "172.16.40.3", "1.01">>,
              <<"172.16.40.2", "172.16.40.3", "2.5">>,
              <<"172.16.40.3", "172.16.40.4", "1.01">>,
              <<"172.16.40.1", "172.16.40.3", "1.01">>}

StepDocuments == {d \in Documents : \A k \in 1..Len(d) : d[k] \in StepEdges}

\* What fetching and decoding can give: a document, or a failure.
Fetches == {[err |-> "ok", doc |-> d] : d \in StepDocuments}
           \cup {[err |-> f, doc |-> <<>>] : f \in Failures}

\* A variant of step 1 that takes a failed fetch for an empty document.
DecodedOrEmpty(fetched) == [err |-> "ok", doc |-> fetched.doc]

\* Step 1: the document a run works on; a failure is fatal for the run.
Decoded(fetched) == fetched

\* Whether step 2 of run `r` has applied every edge.
EdgesDone(r) == r.k > Len(r.doc)

\* Step 3 for the row of key i alone.
DisconnectRow(store, source, touched, i) ==
  IF store[i].topology = source /\ i \notin touched /\ store[i].status = "active"
    THEN save(store, [store[i] EXCEPT !.status = "disconnected"]).store
    ELSE store

\* update is called for a source; the fetch ends with a document or fails.
Start(source, fetched) ==
  /\ run.pc \notin Running
  /\ Len(update(links, source, fetched.doc)) <= MaxLinks
  /\ run' = [pc |-> "fetch", source |-> source, fetched |-> fetched, doc |-> <<>>,
             k |-> 1, touched |-> {}, i |-> 1, start |-> links, alone |-> TRUE]
  /\ UNCHANGED <<links, last, calls>>

\* Step 1 ends: the run aborts on a failure, else goes on to the edges.
Decode ==
  /\ run.pc = "fetch"
  /\ IF Decoded(run.fetched).err \in Failures
       THEN /\ run' = [run EXCEPT !.pc = "aborted"]
            /\ last' = [op |-> "update", err |-> Decoded(run.fetched).err, id |-> 0,
                        new |-> FALSE]
       ELSE /\ run' = [run EXCEPT !.pc = "edges", !.doc = Decoded(run.fetched).doc]
            /\ UNCHANGED last
  /\ UNCHANGED <<links, calls>>

\* The edge at position k applied, as `r` = [store, touched].
EdgeApplied(r) ==
  /\ links' = r.store
  /\ run' = [run EXCEPT !.k = run.k + 1, !.touched = r.touched]
  /\ UNCHANGED <<last, calls>>

\* Step 2, one edge.
Edge ==
  /\ run.pc = "edges" /\ run.k <= Len(run.doc)
  /\ EdgeApplied(ApplyEdges(links, run.source, <<run.doc[run.k]>>, 1, run.touched))

\* Step 2 ends.
EndEdges ==
  /\ run.pc = "edges" /\ EdgesDone(run)
  /\ run' = [run EXCEPT !.pc = "disconnect"]
  /\ UNCHANGED <<links, last, calls>>

\* Step 3, one row.
Row ==
  /\ run.pc = "disconnect" /\ run.i <= Len(links)
  /\ links' = DisconnectRow(links, run.source, run.touched, run.i)
  /\ run' = [run EXCEPT !.i = run.i + 1]
  /\ UNCHANGED <<last, calls>>

\* Step 3 ends and update returns.
Finish ==
  /\ run.pc = "disconnect" /\ run.i > Len(links)
  /\ run' = [run EXCEPT !.pc = "done"]
  /\ last' = [op |-> "update", err |-> "ok", id |-> 0,
              new |-> Len(links) > Len(run.start)]
  /\ UNCHANGED <<links, calls>>

\* The process running update dies.
Interrupt ==
  /\ run.pc \in Running
  /\ run' = [run EXCEPT !.pc = "interrupted"]
  /\ UNCHANGED <<links, last, calls>>

\* The links other writers store between two runs: a link of the source (so
\* that storing it twice gives the source two links of one pair), a link of
\* no source and a planned link between nodes.
StepInputs ==
  {NewLink("radio", "wlan3", "wlan2", None, None, "active", None, None, "t1", "1.01"),
   NewLink("radio", "wlan3", "wlan4", None, None, "active", None, None, None, None),
   NewLink("radio", None, None, "node1", "node2", "planned", None, None, None, None)}

\* full_clean and save by another writer returned `r`, at any point of a run
\* or between two runs; a run that has ended is forgotten then.
Wrote(r) ==
  /\ Len(r.store) <= MaxLinks
  /\ links' = r.store
  /\ last' = Outcome("clean_save", r.err, r.id, links, r.store)
  /\ run' = IF run.pc \in Running
              THEN [run EXCEPT !.alone = run.alone /\ r.store = links]
              ELSE NoRun
  /\ UNCHANGED calls

Write(d) ==
  /\ d.id = 0
  /\ Wrote(Created(clean_save(links, d)))

NextSteps ==
  \/ \E s \in UpdatedSources, f \in Fetches : Start(s, f)
  \/ Decode
  \/ Edge
  \/ EndEdges
  \/ Row
  \/ Finish
  \/ Interrupt
  \/ \E d \in StepInputs : Write(d)

SpecSteps == Init /\ [][NextSteps]_vars

\* ------------------------------------------------- saves of stored links
\* What a caller changes on a link it loaded before saving it again: an
\* interface, a node (which is also how a link comes to stand between other
\* positions), both nodes cleared, the status.
Changes == {"interface_b", "interface_a", "node_a", "no_nodes", "status"}

Edited(l, c) ==
  CASE c = "interface_b" -> [l EXCEPT !.interface_b = "wlan4"]
    [] c = "interface_a" -> [l EXCEPT !.interface_a = "wlan3"]
    [] c = "node_a"      -> [l EXCEPT !.node_a = "node3"]
    [] c = "no_nodes"    -> [l EXCEPT !.node_a = None, !.node_b = None]
    [] OTHER             -> [l EXCEPT !.status = "disconnected"]

\* link.save() on a stored link after a change.
Resave(i, c) ==
  /\ i \in 1..Len(links)
  /\ Returns("resave", Created(save(links, Edited(links[i], c))))

\* The new links of this specification: between two wireless interfaces,
\* with nodes supplied along with the interfaces, and planned between nodes.
EditInputs ==
  {NewLink("radio", "wlan2", "wlan3", None, None, "active", None, None, None, None),
   NewLink("radio", "wlan2", "wlan2", "node1", "node2", "planned", None, None, None, None),
   NewLink("radio", None, None, "node1", "node2", "planned", None, None, None, None)}

NextEdit ==
  \/ \E d \in EditInputs : Save(d)
  \/ \E i \in 1..MaxLinks, c \in Changes : Resave(i, c)

SpecEdit == Init /\ [][NextEdit]_vars

\* ------------------------------------------------ saves over cached names
\* The keys of the extra data that hold names and slugs of the nodes.
NodeKeys == {"node_a_name", "node_b_name", "node_a_slug", "node_b_slug"}

\* The instance with the keys `ks` of its extra data removed.
Forgotten(l, ks) ==
  [l EXCEPT !.data = [k \in DOMAIN l.data |->
                        IF k \in ks THEN None ELSE l.data[k]]]

\* The instance with one of its nodes replaced, or none.
Moves == {"stay", "node_a", "node_b"}

Moved(l, m) ==
  CASE m = "node_a" -> [l EXCEPT !.node_a = "node3"]
    [] m = "node_b" -> [l EXCEPT !.node_b = "node3"]
    [] OTHER        -> l

\* link.save() on a stored link after keys of its extra data were removed
\* and a node was replaced.
Recache(i, ks, m) ==
  /\ i \in 1..Len(links)
  /\ Returns("recache", Created(save(links, Moved(Forgotten(links[i], ks), m))))

\* The new links of this specification: the link of the tests' fixture with
\* interface_b on another node, and a planned link between two nodes.
DataInputs ==
  {NewLink("radio", "wlan2", "wlan3", None, None, "active", None, None, None, None),
   NewLink("radio", None, None, "node1", "node2", "planned", None, None, None, None)}

NextData ==
  \/ \E d \in DataInputs : Save(d)
  \/ \E i \in 1..MaxLinks, ks \in SUBSET NodeKeys, m \in Moves : Recache(i, ks, m)

SpecData == Init /\ [][NextData]_vars

\* ------------------------------------------------- saves over unset types
\* The new links of this specification: of each type and of none, between
\* wireless interfaces, from an ethernet interface, from a bridge and
\* without interfaces, with and without nodes, planned and active.
TypeInputs ==
  {NewLink(t, e[1], e[2], n[1], n[2], st, None, None, None, None) :
     t \in LINK_TYPES \cup {None},
     e \in {<<"wlan2", "wlan3">>, <<"eth1", None>>, <<"br5", None>>, <<None, None>>},
     n \in {<<None, None>>, <<"node1", "node2">>},
     st \in {"planned", "active"}}

\* link.type = None; link.save() on a stored link.
Untype(i) ==
  /\ i \in 1..Len(links)
  /\ Returns("untype", Created(save(links, [links[i] EXCEPT !.type = None])))

NextType ==
  \/ \E d \in TypeInputs : CleanSave(d)
  \/ \E i \in 1..MaxLinks : Untype(i)

SpecType == Init /\ [][NextType]_vars

\* -------------------------------------------------------------- properties
ValidationErrors ==
  {"ValidationError:interfaces_mandatory", "ValidationError:same_interface",
   "ValidationError:nodes_mandatory", "ValidationError:radio_info",
   "ValidationError:interface_type"}

\* A resolved pair that find_or_create can make a link of: two distinct
\* interfaces of one physical type.
Creatable(r) == r.err = "ok" /\ r.a # r.b /\ IfType[r.a] = IfType[r.b]

\* The second of two consecutive calls returns the first one's link and
\* writes nothing.
SecondSame(f1, f2) == f2.err = "ok" /\ f2.id = f1.id /\ f2.store = f1.store

\* Two consecutive find_or_create(a,b) from `store`, `f1` being the first
\* call's outcome and `n` the number of links of the pair before it.
TwiceAsStated(store, a, b, n, f1) ==
  /\ f1.err = "ok" /\ f1.id # 0
  /\ Len(f1.store) = Len(store) + (IF n = 0 THEN 1 ELSE 0)
  /\ SecondSame(f1, find_or_create(f1.store, a, b))

TwiceFails(store, a, b, f1) ==
  /\ f1.err \in ValidationErrors /\ f1.store = store
  /\ find_or_create(f1.store, a, b) = f1

TwiceResolved(store, a, b, r) ==
  IF Creatable(r) \/ Matching(store, r.a, r.b) # {}
    THEN TwiceAsStated(store, a, b, Cardinality(Matching(store, r.a, r.b)),
                       find_or_create(store, a, b))
    ELSE TwiceFails(store, a, b, find_or_create(store, a, b))

\* C1 as stated: for every pair of addresses that resolves to two distinct
\* interfaces, two consecutive find_or_create calls return the same link id,
\* the first adding one link when the pair had none and the second adding none.
C1_AsStated ==
  \A a, b \in Addresses :
    (Resolve(a, b).err = "ok" /\ Resolve(a, b).a # Resolve(a, b).b)
      => TwiceAsStated(links, a, b,
                       Cardinality(Matching(links, Resolve(a, b).a, Resolve(a, b).b)),
                       find_or_create(links, a, b))

\* C1, amended: in every reachable table and for every pair of addresses that
\* resolves, when the two interfaces are distinct and of one physical type, or
\* a link already joins them, two consecutive find_or_create calls return the
\* same link id, the first adding exactly one link when the pair had none and
\* the second adding none; for every other resolved pair both calls raise
\* ValidationError and add nothing.
C1_FindOrCreateTwice ==
  \A a, b \in Addresses :
    Resolve(a, b).err = "ok" => TwiceResolved(links, a, b, Resolve(a, b))

\* find_or_create has just created a link, and calling it again for some pair
\* returns that link without writing.
C1_Witness ==
  /\ last.op = "find_or_create" /\ last.new
  /\ \E a, b \in Addresses :
       find_or_create(links, a, b) = [store |-> links, err |-> "ok", id |-> last.id]

SameOutcome(f, g) == f.err = g.err /\ f.id = g.id

\* C4: in every reachable table and for every pair of addresses,
\* find_from_tuple(a,b) and find_from_tuple(b,a) return the same link id or
\* raise the same error, and the two IP addresses of a pair of interfaces
\* give the same outcome as their two MAC addresses.
C4_OrientationInsensitive ==
  /\ \A a, b \in Addresses :
       SameOutcome(find_from_tuple(links, a, b), find_from_tuple(links, b, a))
  /\ \A a, b \in DOMAIN IpTable :
       (valid_ipv4(a) <=> valid_ipv4(b))
         => SameOutcome(find_from_tuple(links, a, b),
                        find_from_tuple(links, IfMac[IpTable[a]], IfMac[IpTable[b]]))

\* A lookup has returned a link that is stored in the orientation opposite to
\* the one asked for.
C4_Witness ==
  /\ last.op = "find_from_tuple" /\ last.err = "ok"
  /\ links[last.id].interface_a # links[last.id].interface_b
  /\ \E a, b \in Addresses :
       /\ find_from_tuple(links, a, b).id = last.id
       /\ Resolve(a, b).a = links[last.id].interface_b
       /\ Resolve(a, b).b = links[last.id].interface_a

\* Rule 1 on a stored link.
EndpointsOk(l) ==
  l.status # "planned"
    => l.interface_a # None /\ l.interface_b # None /\ l.interface_a # l.interface_b

\* C5: every stored link whose status is not planned has both
\* interfaces set and distinct.
C5_EndpointsSetAndDistinct == \A i \in 1..Len(links) : EndpointsOk(links[i])

\* Rule 3 on a stored link.
RadioInfoOk(l) == (l.dbm # None \/ l.noise # None) => l.type = "radio"

\* C6: every stored link with dbm or noise set has type radio, also
\* when its type was inferred by save.
C6_RadioInfoOnlyOnRadio == \A i \in 1..Len(links) : RadioInfoOk(links[i])

\* The validation rules 1-4 as the design document words them.
Violates(d) ==
  \/ d.status # "planned"
       /\ (d.interface_a = None \/ d.interface_b = None \/ d.interface_a = d.interface_b)
  \/ d.status = "planned" /\ (d.node_a = None \/ d.node_b = None)
  \/ d.type # "radio" /\ (d.dbm # None \/ d.noise # None)
  \/ d.interface_a # None /\ d.interface_b # None
       /\ IfType[d.interface_a] # IfType[d.interface_b]

Rejected(store, r) == r.err \in ValidationErrors /\ r.store = store

\* C8: save on a link that violates one of the rules 1-4 raises
\* ValidationError and leaves the table unchanged.
C8_SaveValidates == \A d \in Drafts : Violates(d) => Rejected(links, save(links, d))

\* C7: under every interleaving of the callers' find_or_create calls, a call
\* that returns a link returns the one link the table holds for the link's
\* unordered pair of interfaces, so that callers of one pair get the same
\* link id and the pair has exactly one link.
C7_NoDuplicateCreate ==
  (last.op = "find_or_create" /\ last.err = "ok")
    => Matching(links, links[last.id].interface_a, links[last.id].interface_b)
         = {last.id}

\* Whether a resolved pair is the unordered pair of interfaces of link `l`.
Joins(r, l) ==
  /\ r.err = "ok"
  /\ \/ r.a = l.interface_a /\ r.b = l.interface_b
     \/ r.a = l.interface_b /\ r.b = l.interface_a

\* Whether document `doc` has an edge for the pair of interfaces of link `l`.
HasEdge(doc, l) == \E k \in 1..Len(doc) : Joins(Resolve(doc[k][1], doc[k][2]), l)

\* The same rows with the same keys, owners and statuses.
SameLinks(u1, u2) ==
  /\ Len(u2) = Len(u1)
  /\ \A i \in 1..Len(u1) :
       /\ u2[i].id = u1[i].id
       /\ u2[i].topology = u1[i].topology
       /\ u2[i].status = u1[i].status

SecondRunNoOp(s, doc, u1) == SameLinks(u1, update(u1, s, doc)) /\ update(u1, s, doc) = u1

\* C2: in every reachable table, for every source and every document, a
\* second update with the same document leaves the table as the first left
\* it: the same links with the same ids, owners and statuses, none created
\* and none disconnected.
C2_UpdateTwiceNoOp ==
  \A s \in Topologies, doc \in Documents : SecondRunNoOp(s, doc, update(links, s, doc))

\* An update has run, and running it again with a document of two edges
\* changes nothing: both its links are there and active.
C2_Witness ==
  /\ last.op = "update"
  /\ \E doc \in Documents :
       /\ Len(doc) = 2
       /\ update(links, "t1", doc) = links
       /\ \A i \in 1..Len(links) : links[i].topology = "t1" /\ links[i].status = "active"
       /\ Len(links) = 2

\* The k-th element of a set of positions, in increasing order.
NthOf(S, k) == CHOOSE i \in S : Cardinality({j \in S : j <= i}) = k

\* The documents made of some of the edges of `doc`, in their order.
SubDocuments(doc) ==
  {[k \in 1..Cardinality(S) |-> doc[NthOf(S, k)]] : S \in SUBSET (1..Len(doc))}

\* The table `u2` the second run left against the table `u1` the first left.
Shrunk(s, d1, d2, u1, u2) ==
  /\ Len(u2) = Len(u1)
  /\ \A i \in 1..Len(u1) :
       /\ u2[i].id = u1[i].id
       /\ (u1[i].topology = s /\ u1[i].status = "active")
            => /\ u2[i].topology = s
               /\ u2[i].status = IF HasEdge(d2, u1[i]) THEN "active" ELSE "disconnected"
       /\ (~HasEdge(d1, u1[i]) /\ ~HasEdge(d2, u1[i])) => u2[i] = u1[i]

ShrunkAfter(s, d1, d2, u1) == Shrunk(s, d1, d2, u1, update(u1, s, d2))

\* C3: in every reachable table, for every document D1 and every document D2
\* made of some of D1's edges, after update with D1 and then with D2 every
\* link of the source that was active and has no edge in D2 is disconnected,
\* every one that has an edge in D2 is still active, every link without an
\* edge in D1 or D2 is as the first run left it, and every link is still
\* there under its id.
C3_ShrunkDocument ==
  \A s \in UpdatedSources, d1 \in Documents :
    \A d2 \in SubDocuments(d1) : ShrunkAfter(s, d1, d2, update(links, s, d1))

\* An update has left one link of the source active and disconnected another.
C3_Witness ==
  /\ last.op = "update"
  /\ \E i, j \in 1..Len(links) :
       /\ links[i].topology = "t1" /\ links[i].status = "active"
       /\ links[j].topology = "t1" /\ links[j].status = "disconnected"

\* The links of source `s` in table `u` that join the resolved pair `r`.
OfSource(u, s, r) == {i \in Matching(u, r.a, r.b) : u[i].topology = s}

\* C9 as stated: after update, every edge whose addresses resolve has exactly
\* one link of the source for its pair, active and with the edge's weight.
EdgeAsStated(u, s, r, w) ==
  r.err = "ok"
    => /\ Cardinality(OfSource(u, s, r)) = 1
       /\ \A i \in OfSource(u, s, r) : u[i].status = "active" /\ u[i].metric_value = w

C9_AsStated ==
  \A s \in UpdatedSources, doc \in Documents :
    \A k \in 1..Len(doc) :
      EdgeAsStated(update(links, s, doc), s, Resolve(doc[k][1], doc[k][2]), doc[k][3])

\* The weight of the last edge of `doc` for the resolved pair `r`.
LastWeight(doc, r) ==
  doc[CHOOSE k \in 1..Len(doc) :
        /\ Joins(Resolve(doc[k][1], doc[k][2]), [interface_a |-> r.a, interface_b |-> r.b])
        /\ \A j \in (k + 1)..Len(doc) :
             ~Joins(Resolve(doc[j][1], doc[j][2]), [interface_a |-> r.a, interface_b |-> r.b])][3]

\* The link update leaves for an edge: the lowest key among the links of the
\* pair, before the run (`m0`) when there were any.
EdgeLink(m0, u, s, r, w, id) ==
  /\ id # 0
  /\ u[id].topology = s /\ u[id].status = "active" /\ u[id].metric_value = w
  /\ {i \in OfSource(u, s, r) : u[i].status = "active"} = {id}
  /\ IF m0 = {} THEN Matching(u, r.a, r.b) = {id}
                ELSE Matching(u, r.a, r.b) = m0 /\ id = First(m0)

EdgeAmended(store, u, s, doc, r) ==
  /\ Creatable(r)
       => EdgeLink(Matching(store, r.a, r.b), u, s, r, LastWeight(doc, r),
                   First(Matching(u, r.a, r.b)))
  /\ (r.err = "ok" /\ ~Creatable(r)) => Matching(u, r.a, r.b) = Matching(store, r.a, r.b)

\* C9, amended: after update, every edge whose addresses resolve to two
\* distinct interfaces of one physical type has exactly one active link of
\* the source for its pair, the link of lowest id that joins the pair, with
\* the weight of the document's last edge for that pair; when a link joined
\* the pair before the run that link is the one made active, under its id,
\* and none is created, otherwise exactly one is created; an edge whose
\* interfaces coincide or differ in type has no link created.
C9_EdgeLinks ==
  \A s \in Topologies, doc \in Documents :
    \A k \in 1..Len(doc) :
      EdgeAmended(links, update(links, s, doc), s, doc, Resolve(doc[k][1], doc[k][2]))

\* An update has created a link and left a link of the source active with
\* the weight 2.5 of an edge.
C9_Witness ==
  /\ last.op = "update" /\ last.new
  /\ \E i \in 1..Len(links) :
       /\ links[i].topology = "t1" /\ links[i].status = "active"
       /\ links[i].metric_value = "2.5"

\* Every link of `store` is in `u` under its id, joins the same pair and, if
\* it was of the source, is still of the source.
Preserved(s, store, u) ==
  /\ Len(u) >= Len(store)
  /\ \A i \in 1..Len(store) :
       /\ u[i].id = store[i].id
       /\ {u[i].interface_a, u[i].interface_b} = {store[i].interface_a, store[i].interface_b}
       /\ store[i].topology = s => u[i].topology = s

\* C10: in every table reachable through updates, every link is stored under
\* the key it was given, and update with any document keeps every link there
\* under its id, joining the same pair of interfaces, and keeps the source's
\* links the source's.
C10_NoDeleteStableIdentity ==
  /\ \A i \in 1..Len(links) : links[i].id = i
  /\ \A s \in Topologies, doc \in Documents : Preserved(s, links, update(links, s, doc))

\* An update has disconnected every link of the source and all are still
\* stored.
C10_Witness ==
  /\ last.op = "update" /\ ~last.new
  /\ Len(links) = MaxLinks
  /\ \A i \in 1..Len(links) :
       links[i].id = i /\ links[i].topology = "t1" /\ links[i].status = "disconnected"

\* The pairs the lookup takes as well formed: two IPv4 addresses, two IPv6
\* addresses or two MAC addresses.
SameKind(a, b) ==
  \/ valid_ipv4(a) /\ valid_ipv4(b)
  \/ valid_ipv6(a) /\ valid_ipv6(b)
  \/ valid_mac(a) /\ valid_mac(b)

\* Whether an address has a row in the table its kind is looked up in.
Indexed(a) ==
  IF valid_mac(a) THEN \E i \in Interfaces : IfMac[i] = a ELSE a \in DOMAIN IpTable

\* Both calls raise LinkDataNotFound and write nothing.
BothNotFound(store, f, g) ==
  /\ f.err = "LinkDataNotFound" /\ f.id = 0
  /\ g.err = "LinkDataNotFound" /\ g.id = 0 /\ g.store = store

\* C11 as stated: when an address of a well-formed pair has no row, both
\* lookups raise LinkDataNotFound carrying the unresolved address and write
\* nothing.
C11_AsStated ==
  \A a, b \in Addresses :
    (SameKind(a, b) /\ (~Indexed(a) \/ ~Indexed(b)))
      => /\ BothNotFound(links, find_from_tuple(links, a, b), find_or_create(links, a, b))
         /\ DoesNotExist(a, b) \in {x \in {a, b} : ~Indexed(x)}

\* C11, amended: when one of two IPv4, two IPv6 or two MAC addresses has no
\* row, find_from_tuple and find_or_create both raise LinkDataNotFound, which
\* carries the ORM's DoesNotExist error and neither address, and the table
\* is unchanged; LinkNotFound is raised exactly when both addresses have a
\* row and no link joins the two interfaces.
C11_DataNotFound ==
  \A a, b \in Addresses :
    /\ (SameKind(a, b) /\ (~Indexed(a) \/ ~Indexed(b)))
         => /\ BothNotFound(links, find_from_tuple(links, a, b),
                            find_or_create(links, a, b))
            /\ DoesNotExist(a, b) \notin {a, b}
    /\ find_from_tuple(links, a, b).err = "LinkNotFound"
         <=> /\ SameKind(a, b) /\ Indexed(a) /\ Indexed(b)
             /\ Matching(links, Resolve(a, b).a, Resolve(a, b).b) = {}

\* find_or_create has just raised LinkDataNotFound over a table that holds
\* links.
C11_Witness ==
  last.op = "find_or_create" /\ last.err = "LinkDataNotFound" /\ Len(links) > 0

IsIp(a) == valid_ipv4(a) \/ valid_ipv6(a)

\* An address of none of the three formats.
Malformed(a) == ~IsIp(a) /\ ~valid_mac(a)

\* One IP address and one MAC address.
MixedKinds(a, b) == (IsIp(a) /\ valid_mac(b)) \/ (valid_mac(a) /\ IsIp(b))

\* C12 as stated: the lookup raises ValueError exactly when an address is of
\* none of the three formats or one is an IP address and the other a MAC
\* address.
C12_AsStated ==
  \A a, b \in Addresses :
    find_from_tuple(links, a, b).err = "ValueError"
      <=> (Malformed(a) \/ Malformed(b) \/ MixedKinds(a, b))

RaisesValueError(store, f, g) ==
  f.err = "ValueError" /\ g.err = "ValueError" /\ g.store = store

\* C12, amended: find_from_tuple and find_or_create raise ValueError exactly
\* when the pair is not two IPv4 addresses, two IPv6 addresses or two MAC
\* addresses, that is when an address is of none of the three formats, when
\* one is an IP and the other a MAC address, and also when one is IPv4 and
\* the other IPv6; it is raised whether or not the addresses have rows, and
\* the table is unchanged.
C12_ValueError ==
  \A a, b \in Addresses :
    /\ find_from_tuple(links, a, b).err = "ValueError" <=> ~SameKind(a, b)
    /\ ~SameKind(a, b)
         => RaisesValueError(links, find_from_tuple(links, a, b),
                             find_or_create(links, a, b))
    /\ ~SameKind(a, b) <=> \/ Malformed(a) \/ Malformed(b) \/ MixedKinds(a, b)
                           \/ (valid_ipv4(a) /\ valid_ipv6(b))
                           \/ (valid_ipv6(a) /\ valid_ipv4(b))

\* find_from_tuple has just raised ValueError over a table that holds links.
C12_Witness ==
  last.op = "find_from_tuple" /\ last.err = "ValueError" /\ Len(links) > 0

\* The keys of the active links of a source.
ActiveIds(store, s) ==
  {i \in 1..Len(store) : store[i].topology = s /\ store[i].status = "active"}

\* The document `e` lists the links of keys `A`, one entry each in key order,
\* and their addresses once each.
ListsExactly(store, A, e) ==
  /\ Len(e.links) = Cardinality(A)
  /\ \A k \in 1..Len(e.links) :
       /\ e.links[k].source = AddressOf(store[NthOf(A, k)].interface_a)
       /\ e.links[k].target = AddressOf(store[NthOf(A, k)].interface_b)
       /\ e.links[k].weight = store[NthOf(A, k)].metric_value
  /\ {e.nodes[k] : k \in 1..Len(e.nodes)}
       = {AddressOf(store[i].interface_a) : i \in A}
           \cup {AddressOf(store[i].interface_b) : i \in A}
  /\ \A j, k \in 1..Len(e.nodes) : j # k => e.nodes[j] # e.nodes[k]
  /\ A = {} => e.nodes = <<>> /\ e.links = <<>>

\* C13: in every table reachable through updates, find_or_create and
\* validated saves, the export of a source lists one entry per active link of
\* the source, in key order and with the link's metric_value as weight, and
\* the distinct addresses of those links' interfaces once each; links of other
\* statuses or sources add nothing, and with no active link both lists are
\* empty sequences.
C13_Export ==
  \A s \in Topologies : ListsExactly(links, ActiveIds(links, s), export(links, s))

\* An update has left two active links that share an interface: the export
\* has two links and three nodes.
C13_Witness ==
  /\ last.op = "update"
  /\ Len(export(links, "t1").links) = 2
  /\ Len(export(links, "t1").nodes) = 3

\* Every link of `store` that is not of source `s` has in `u` the status,
\* metric_value and source it had.
OthersUntouched(s, store, u) ==
  \A i \in 1..Len(store) :
    store[i].topology # s
      => /\ u[i].status = store[i].status
         /\ u[i].metric_value = store[i].metric_value
         /\ u[i].topology = store[i].topology

\* C14: update of a source changes neither the status, nor the metric_value,
\* nor the source of any link of another source or of no source, whatever
\* the document.
C14_SourcesIndependent ==
  \A s \in Topologies, doc \in Documents :
    OthersUntouched(s, links, update(links, s, doc))

\* C15: no two stored links of one topology join the same unordered pair of
\* interfaces.
C15_UniquePerSource ==
  \A i, j \in 1..Len(links) :
    (/\ i # j
     /\ links[i].topology # None /\ links[i].topology = links[j].topology
     /\ links[i].interface_a # None /\ links[i].interface_b # None)
      => {links[i].interface_a, links[i].interface_b}
           # {links[j].interface_a, links[j].interface_b}

\* C16: a run whose fetch or decode failed is aborted with that failure and
\* has written nothing: it applied no edge and visited no row, and the table
\* is the one the run started from unless another writer has written since,
\* with no link created, updated or disconnected; no run goes on to step 2
\* or 3 after a failure; and every run that completes with a document, after
\* a failed one or not, leaves what update leaves from the table it started
\* at when no other writer came between its steps.
C16_FailedFetchAborts ==
  /\ run.pc = "aborted"
       => /\ run.fetched.err \in Failures
          /\ run.k = 1 /\ run.i = 1 /\ run.touched = {}
          /\ last.op = "update" => (last.err = run.fetched.err /\ ~last.new)
          /\ run.alone => links = run.start
  /\ run.pc \in {"edges", "disconnect", "done"} => run.fetched.err = "ok"
  /\ (run.pc = "done" /\ run.alone)
       => links = update(run.start, run.source, run.doc)

\* A run has been aborted by a failed fetch while the source has an active
\* link, which an empty document would have disconnected.
C16_Witness ==
  /\ run.pc = "aborted"
  /\ \E i \in 1..Len(links) : links[i].topology = run.source /\ links[i].status = "active"

\* The rows the run has disconnected so far.
DisconnectedByRun ==
  {i \in 1..Len(run.start) :
     run.start[i].status = "active" /\ links[i].status = "disconnected"}

\* C17: step 3 starts after the last edge, and no link that has an
\* edge in the document is disconnected by the run.
C17_NoListedLinkDisconnected ==
  run.pc \in {"disconnect", "done"}
    => /\ run.k > Len(run.doc)
       /\ \A i \in DisconnectedByRun : ~HasEdge(run.doc, run.start[i])

\* Both interfaces set and of different physical types.
TypesDiffer(ia, ib) == ia # None /\ ib # None /\ IfType[ia] # IfType[ib]

\* find_or_create raised a validation error and wrote nothing.
RaisedNoLink(store, f) == f.err \in ValidationErrors /\ f.id = 0 /\ f.store = store

\* C18: every link with two interfaces of different types fails
\* full_clean, whatever its status and type, and find_or_create on addresses
\* of two such interfaces raises the validation error and creates no link.
C18_MismatchedTypesRejected ==
  /\ \A d \in Drafts :
       TypesDiffer(d.interface_a, d.interface_b) => clean(d) \in ValidationErrors
  /\ \A a, b \in Addresses :
       (Resolve(a, b).err = "ok" /\ TypesDiffer(Resolve(a, b).a, Resolve(a, b).b))
         => RaisedNoLink(links, find_or_create(links, a, b))

\* The straight path between the nodes of a link.
StraightLine(l) == <<NodePoint[l.node_a], NodePoint[l.node_b]>>

\* A first save draws the line between the nodes the link is stored with.
DrawnOnce(r) == r.err = "ok" => r.link.line = StraightLine(r.link)

\* A later save keeps the line of row i.
LineKept(store, i, r) == r.err = "ok" /\ r.link.line = store[i].line /\ r.link.id = i

\* C19: a first save of a link whose line is unset sets it to the two-point
\* path from node_a's point to node_b's point; every stored link has a line;
\* and every later save, after a change of an interface, of a node, of both
\* nodes or of the status, keeps the line the link has.
C19_LineComputedOnce ==
  /\ \A d \in Drafts : DrawnOnce(save(links, d))
  /\ \A i \in 1..Len(links) :
       /\ links[i].line # <<>>
       /\ \A c \in Changes : LineKept(links, i, save(links, Edited(links[i], c)))

\* A link has been saved again after its node changed and still has the
\* line of its first save, which is no longer the path between its nodes.
C19_Witness ==
  /\ last.op = "resave" /\ last.err = "ok"
  /\ links[last.id].node_a # None /\ links[last.id].node_b # None
  /\ links[last.id].line # StraightLine(links[last.id])

\* The interfaces are set and the cached nodes and layer are theirs.
ShortcutsMatch(l) ==
  (l.interface_a # None /\ l.interface_b # None)
    => /\ l.node_a = IfNode[l.interface_a]
       /\ l.node_b = IfNode[l.interface_b]
       /\ l.layer = NodeLayer[l.node_a]

\* C20: for every stored link with both interfaces set, node_a and
\* node_b are the nodes of interface_a and interface_b and layer is node_a's
\* layer.
C20_ShortcutsFollowInterfaces == \A i \in 1..Len(links) : ShortcutsMatch(links[i])

\* The names in the extra data `after` a save of an instance whose extra
\* data was `before` and whose nodes are now `na` and `nb`.
NamesCached(before, after, na, nb) ==
  IF before.node_a_name = None
    THEN /\ after.node_a_name = NodeName[na]
         /\ after.node_b_name = NodeName[nb]
    ELSE /\ after.node_a_name = before.node_a_name
         /\ after.node_b_name = before.node_b_name

\* The slugs in the extra data `after` such a save.
SlugsCached(before, after, na, nb) ==
  IF before.node_a_slug = None \/ before.node_b_slug = None
    THEN /\ after.node_a_slug = NodeSlug[na]
         /\ after.node_b_slug = NodeSlug[nb]
    ELSE /\ after.node_a_slug = before.node_a_slug
         /\ after.node_b_slug = before.node_b_slug

\* The outcome `r` of saving instance `l`, as far as names and slugs go.
NodeKeysCached(l, r) ==
  r.err = "ok"
    => /\ NamesCached(l.data, r.link.data, r.link.node_a, r.link.node_b)
       /\ SlugsCached(l.data, r.link.data, r.link.node_a, r.link.node_b)

\* All four keys hold the names and slugs of the link's nodes.
AllCurrent(l) ==
  /\ l.data.node_a_name = NodeName[l.node_a]
  /\ l.data.node_b_name = NodeName[l.node_b]
  /\ l.data.node_a_slug = NodeSlug[l.node_a]
  /\ l.data.node_b_slug = NodeSlug[l.node_b]

\* C21: save writes node_a_name and node_b_name exactly when node_a_name is
\* absent (a present node_b_name is overwritten then, an absent node_b_name
\* stays absent when node_a_name is present) and writes node_a_slug and
\* node_b_slug whenever either is absent; the first save of a link with
\* empty extra data leaves all four equal to the names and slugs of node_a
\* and node_b.
C21_NamesBySingleCheckSlugsByBoth ==
  /\ \A d \in DataInputs :
       /\ NodeKeysCached(d, save(links, d))
       /\ save(links, d).err = "ok" => AllCurrent(save(links, d).link)
  /\ \A i \in 1..Len(links) :
       \A ks \in SUBSET NodeKeys :
         \A m \in Moves :
           NodeKeysCached(Moved(Forgotten(links[i], ks), m),
                          save(links, Moved(Forgotten(links[i], ks), m)))

\* A stored link was saved with node_b_name removed and node_a_name kept:
\* node_b_name is still absent, and the slugs, of which one had been
\* removed as well, are those of the nodes.
C21_Witness ==
  /\ last.op = "recache" /\ last.err = "ok"
  /\ links[last.id].data.node_a_name # None
  /\ links[last.id].data.node_b_name = None
  /\ links[last.id].data.node_a_slug = NodeSlug[links[last.id].node_a]
  /\ links[last.id].data.node_b_slug = NodeSlug[links[last.id].node_b]

\* The type a link has after a save: the one it had, or, when it had none,
\* the one that goes with the physical type of interface `ia`.
TypeAfter(type, ia) ==
  IF type # None THEN type
  ELSE CASE IfType[ia] = "wireless" -> "radio"
         [] IfType[ia] = "ethernet" -> "ethernet"
         [] OTHER                   -> "virtual"

\* Every save that completes leaves the type that was set, or the type
\* inferred from interface_a when none was set.
TypeInferredWhenUnset ==
  /\ \A d \in TypeInputs :
       save(links, d).err = "ok"
         => save(links, d).link.type = TypeAfter(d.type, d.interface_a)
  /\ \A i \in 1..Len(links) :
       /\ save(links, links[i]).link.type = links[i].type
       /\ save(links, [links[i] EXCEPT !.type = None]).err = "ok"
            => save(links, [links[i] EXCEPT !.type = None]).link.type
                 = TypeAfter(None, links[i].interface_a)

\* Every link that passes validation is saved without error.
ValidatedSaveCompletes ==
  \A d \in TypeInputs :
    clean(d) = "ok" => save(links, d).err = "ok"

\* C22: save infers the type only when it is unset, from the physical type
\* of interface_a (wireless -> radio, ethernet -> ethernet, anything else ->
\* virtual), and never changes a type that is set; for every link that
\* passes validation, a planned link with node_a and node_b and no
\* interfaces included, save completes without error.
C22_TypeInferredSaveCompletes ==
  /\ TypeInferredWhenUnset
  /\ ValidatedSaveCompletes

\* A planned link between two nodes, without interfaces and without a type,
\* passed validation and its save raised.
PlannedUntypedRaised ==
  /\ last.op = "clean_save"
  /\ last.err = "AttributeError"

\* A link from a bridge was saved without a type and is virtual.
InferredVirtual ==
  \E i \in 1..Len(links) :
    /\ links[i].interface_a = "br5"
    /\ links[i].type = "virtual"

====
